---------------------------- MODULE Spec2Model ----------------------------
(***************************************************************************)
(* Model of the synthesis engine of noisebandnet: ddsp/synths.py            *)
(* (NoiseBandSynth, SineSynth, HarmonicSynth, SynthRegister) and the        *)
(* amplitude-synthesis half of modules/noisebandnet.py.                     *)
(*                                                                         *)
(* Tensors are nested sequences, indexed from 1: a 3-D tensor x of shape    *)
(* (B, C, T) is x[b][c][t].  Arithmetic is exact integer arithmetic:        *)
(*   - F.interpolate(.., scale_factor = r, mode = 'linear') produces        *)
(*     weights that are multiples of 1/(2r); the model keeps every          *)
(*     upsampled value multiplied by 2r, so it stays an integer;            *)
(*   - frequencies are given in units of fs * r / 6 Hz, so that an          *)
(*     upsampled frequency (times 2r) is a whole number of twelfths of a    *)
(*     turn per sample, a phase is a whole number of twelfths of a turn     *)
(*     and 2*pi is 12; twice the sine of such a phase is p + q * sqrt(3)    *)
(*     with p and q integers, and is kept as the pair <<p, q>>, which is    *)
(*     exact: two such numbers are equal iff their pairs are.               *)
(* Floating-point rounding is not modelled.                                 *)
(***************************************************************************)
EXTENDS Integers, Sequences, FiniteSets, TLC

\* ------------------------------------------------------------- bounds
MaxLen == 3
MaxBatch == 2
MaxFactor == 2
MaxTrajectories == 2
NFilters == 2
BandLen == 3
NSines == 2
NHarmonics == 2
MaxSynths == 2
MaxCalls == 2

VARIABLES
  resampling_factor,  \* self._resampling_factor, fixed at construction
  training,           \* nn.Module.training of the noise generators
  noisebands_shift,   \* self._noisebands_shift of each noise generator
  amplitudes,         \* the control trajectory the host is rendering
  pos,                \* control steps of the trajectory each generator was given
  looped,             \* looped_bands of the calls of this trajectory, concatenated
  signal,             \* returned signals of this trajectory, concatenated
  rendered,           \* output samples the host has asked of each generator since construction
  trajectories,       \* trajectories the host has started
  start,              \* per generator: its shift when the trajectory started
  calls,              \* per generator: its calls on this trajectory
  last                \* per generator: the chunk and the state its last call started from

noiseVars == <<resampling_factor, training, noisebands_shift, amplitudes, pos,
               looped, signal, rendered, trajectories, start, calls, last>>

VARIABLES
  sine_factor,        \* self._resampling_factor of the sine generators
  streaming,          \* self._streaming of the sine generators
  phases,             \* self._phases of each sine generator; <<>> is None
  frequencies,        \* the frequency trajectory the host is rendering
  sine_amplitudes,    \* the amplitude trajectory that goes with it
  sine_pos,           \* control steps of the trajectory each sine generator was given
  sine_signal,        \* returned signals of this trajectory, concatenated
  sine_phi,           \* per generator: the phases its last call took the sine of
  sine_last,          \* per generator: the chunk and the state its last call started from
  sine_start,         \* per generator: its phases when the trajectory started
  sine_cuts,          \* per generator: the control steps at which its later calls started
  sine_batch,         \* per generator: the batch size of its most recent call, 0 before it
  sine_trajectories   \* trajectories the host has started

sineVars == <<sine_factor, streaming, phases, frequencies, sine_amplitudes,
              sine_pos, sine_signal, sine_phi, sine_last, sine_start, sine_cuts,
              sine_batch, sine_trajectories>>

VARIABLES
  synths,             \* SynthRegister._synths: the call_params of each registered synth
  params,             \* the flat tensor last given to split_params; <<>> before
  params_list,        \* what split_params returned
  split_raised        \* the error split_params raised, or None

registerVars == <<synths, params, params_list, split_raised>>

VARIABLES
  kind,               \* the class of the generator the host calls freely
  call_factor,        \* its self._resampling_factor
  call_streaming,     \* its self._streaming (sine generators)
  call_shift,         \* its self._noisebands_shift (noise generator)
  call_phases,        \* its self._phases (sine generators); <<>> is None
  call_args,          \* the arguments of its last call
  call_before,        \* its state when the last call started
  call_res,           \* what the last call returned or raised
  call_count          \* the calls made so far

callVars == <<kind, call_factor, call_streaming, call_shift, call_phases,
              call_args, call_before, call_res, call_count>>

VARIABLES
  attempt,            \* the arguments of the last constructor call
  instance,           \* the generator it returned; NoInstance when it raised
  init_raised         \* the error it raised, or None

initVars == <<attempt, instance, init_raised>>

VARIABLES
  twin_kind,          \* the class of the two generators built alike
  twin_factor,        \* their self._resampling_factor
  twin_streaming,     \* their self._streaming (sine generators)
  twin_training,      \* their nn.Module.training (noise generators)
  twin_shift,         \* self._noisebands_shift of each
  twin_phases,        \* self._phases of each; <<>> is None
  twin_args,          \* the arguments both are called with in this round
  twin_start,         \* the state of each when the round started
  twin_out,           \* what each returned in this round; <<>> before its call
  twin_done,          \* whether each was called in this round
  twin_rounds         \* the rounds started so far

twinVars == <<twin_kind, twin_factor, twin_streaming, twin_training, twin_shift,
              twin_phases, twin_args, twin_start, twin_out, twin_done, twin_rounds>>

VARIABLES
  pair_factor,        \* self._resampling_factor of the two generators of a pair
  pair_streaming,     \* self._streaming of the pair's SineSynth
  pair_bands,         \* the noisebands buffer of the FilterBank
  pair_shift,         \* self._noisebands_shift of the pair's NoiseBandSynth
  pair_phases,        \* self._phases of the pair's SineSynth; <<>> is None
  pair_noise_calls,   \* the arguments of the NoiseBandSynth's calls, in order
  pair_sine_calls,    \* the arguments of the SineSynth's calls, in order
  pair_noise_out,     \* what the NoiseBandSynth's last call returned
  pair_sine_out       \* what the SineSynth's last call returned

pairVars == <<pair_factor, pair_streaming, pair_bands, pair_shift, pair_phases,
              pair_noise_calls, pair_sine_calls, pair_noise_out, pair_sine_out>>

vars == <<noiseVars, sineVars, registerVars, callVars, initVars, twinVars, pairVars>>

\* ------------------------------------------------------------- tensors
None == "None"

RECURSIVE SumSeq(_)
SumSeq(s) == IF s = <<>> THEN 0 ELSE Head(s) + SumSeq(Tail(s))

Max(a, b) == IF a >= b THEN a ELSE b

Ceil(a, b) == (a + b - 1) \div b

\* A tensor is kept as a sequence of sequences: Tup(f) is the function f over
\* 1..n, as a sequence.
Tup(f) == f \o <<>>

\* shape of a 3-D tensor
Shape3(x) == <<Len(x), Len(x[1]), Len(x[1][1])>>

\* x[:, :, from+1 .. to] of a 3-D tensor
Slice3(x, from, to) ==
  Tup([b \in 1..Len(x) |-> Tup([c \in 1..Len(x[b]) |-> SubSeq(x[b][c], from + 1, to)])])

\* torch.cat((x, y), dim=-1) of two 3-D tensors; an empty tensor is <<>>
Cat3(x, y) ==
  IF x = <<>> THEN y
  ELSE Tup([b \in 1..Len(x) |-> Tup([c \in 1..Len(x[b]) |-> x[b][c] \o y[b][c]])])

\* torch.cat((x, y), dim=-1) of two 2-D tensors
Cat2(x, y) ==
  IF x = <<>> THEN y ELSE Tup([c \in 1..Len(x) |-> x[c] \o y[c]])

\* torch broadcasting of two sizes
Broadcastable(m, n) == m = n \/ m = 1 \/ n = 1

BIdx(i, n) == IF n = 1 THEN 1 ELSE i

\* whether x * y of two 3-D tensors raises (torch's RuntimeError: the shapes
\* cannot be broadcast)
MulRaises(x, y) == \E d \in 1..3 : ~Broadcastable(Shape3(x)[d], Shape3(y)[d])

\* x * y of two 3-D tensors under torch's broadcasting rules; the empty tensor
\* stands for no result when the multiplication raises
Mul3(x, y) ==
  LET sx == Shape3(x)
      sy == Shape3(y)
  IN IF MulRaises(x, y) THEN <<>>
     ELSE Tup([b \in 1..Max(sx[1], sy[1]) |->
            Tup([c \in 1..Max(sx[2], sy[2]) |->
              Tup([t \in 1..Max(sx[3], sy[3]) |->
                 x[BIdx(b, sx[1])][BIdx(c, sx[2])][BIdx(t, sx[3])]
               * y[BIdx(b, sy[1])][BIdx(c, sy[2])][BIdx(t, sy[3])]])])])

\* torch.sum(x, dim=1, keepdim=True) of a 3-D tensor
SumDim1(x) ==
  Tup([b \in 1..Len(x) |->
    << Tup([t \in 1..Len(x[b][1]) |-> SumSeq(Tup([c \in 1..Len(x[b]) |-> x[b][c][t]]))]) >>])

\* One row of F.interpolate(.., scale_factor=float(r), mode='linear') with
\* align_corners=False: destination index dst reads the source coordinate
\* max(0, (dst + 0.5) / r - 0.5), between i0 and min(i0 + 1, L - 1).
\* Every value is multiplied by 2r.
InterpolateRow(row, r) ==
  Tup([t \in 1..(Len(row) * r) |->
    LET num0 == 2 * (t - 1) + 1 - r
        num  == IF num0 < 0 THEN 0 ELSE num0
        i0   == num \div (2 * r)
        lam  == num % (2 * r)
        i1   == IF i0 < Len(row) - 1 THEN i0 + 1 ELSE i0
    IN (2 * r - lam) * row[i0 + 1] + lam * row[i1 + 1]])

Interpolate(x, r) ==
  Tup([b \in 1..Len(x) |-> Tup([c \in 1..Len(x[b]) |-> InterpolateRow(x[b][c], r)])])

\* torch.roll(x, shifts=s, dims=-1) of a 2-D tensor: out[i] = x[(i - s) mod n]
RollRight(x, s) ==
  Tup([c \in 1..Len(x) |-> Tup([i \in 1..Len(x[c]) |-> x[c][((i - 1 + s) % Len(x[c])) + 1]])])

Roll(x, s) ==
  Tup([c \in 1..Len(x) |-> Tup([i \in 1..Len(x[c]) |-> x[c][((i - 1 - s) % Len(x[c])) + 1]])])

\* x.repeat(1, repeats) of a 2-D tensor
Repeat(x, repeats) ==
  Tup([c \in 1..Len(x) |->
    Tup([i \in 1..(Len(x[c]) * repeats) |-> x[c][((i - 1) % Len(x[c])) + 1]])])

\* x[:, :n] of a 2-D tensor
Trim(x, n) == Tup([c \in 1..Len(x) |-> SubSeq(x[c], 1, n)])

\* ------------------------------------------------------------- FilterBank
\* The filterbank's fixed buffer, filter-index x sample: every sample differs
\* from every other, so that a window tells where it was read from.
Noisebands == Tup([f \in 1..NFilters |-> Tup([k \in 1..BandLen |-> 10 * f + k * k])])

\* ------------------------------------------------------------- NoiseBandSynth
\* The shift saved for the next iteration.
NextShiftPerBatch(shift, upsampled) ==
  (shift + Len(upsampled) * Len(upsampled[1][1])) % Len(Noisebands[1])

NextShiftNoModulo(shift, upsampled) == shift + Len(upsampled[1][1])

NextShift(shift, upsampled) ==
  (shift + Len(upsampled[1][1])) % Len(Noisebands[1])

\* The noisebands read by a call: rolled to the shift, rolled once more at
\* random (by k) when training, repeated and trimmed to n samples.
LoopedBandsRolledAnyway(shift, isTraining, k, n) ==
  LET noisebands == RollRight(RollRight(Noisebands, shift), -k)
  IN Trim(Repeat(noisebands, Ceil(n, Len(noisebands[1]))), n)

LoopedBandsNoShift(shift, isTraining, k, n) ==
  LET noisebands == IF isTraining THEN Roll(Noisebands, k) ELSE Noisebands
  IN Trim(Repeat(noisebands, Ceil(n, Len(noisebands[1]))), n)

LoopedBands(shift, isTraining, k, n) ==
  LET shifted    == Roll(Noisebands, -shift)
      noisebands == IF isTraining THEN Roll(shifted, k) ELSE shifted
      repeats    == Ceil(n, Len(noisebands[1]))
  IN Trim(Repeat(noisebands, repeats), n)

NoiseBandSynth_callRollSaved(shift, amps, r, isTraining, k) ==
  LET upsampled_amplitudes == Interpolate(amps, r)
      n            == Len(upsampled_amplitudes[1][1])
      looped_bands == LoopedBands(shift, isTraining, k, n)
      rolled       == IF isTraining THEN shift + k ELSE shift
  IN [noisebands_shift |-> NextShift(rolled, upsampled_amplitudes),
      looped_bands     |-> looped_bands,
      raised           |-> None,
      signal           |-> SumDim1(Mul3(upsampled_amplitudes, <<looped_bands>>))]

\* NoiseBandSynth.__call__(amplitudes) from self._noisebands_shift = shift, with
\* self.training = isTraining and k the value torch.randint draws.  The shift
\* is saved before the signal is computed, so a call that raises has saved it.
NoiseBandSynth_call(shift, amps, r, isTraining, k) ==
  LET upsampled_amplitudes == Interpolate(amps, r)
      n            == Len(upsampled_amplitudes[1][1])
      looped_bands == LoopedBands(shift, isTraining, k, n)
      raises       == MulRaises(upsampled_amplitudes, <<looped_bands>>)
      product      == Mul3(upsampled_amplitudes, <<looped_bands>>)
  IN [noisebands_shift |-> NextShift(shift, upsampled_amplitudes),
      looped_bands     |-> looped_bands,
      raised           |-> IF raises THEN "RuntimeError" ELSE None,
      signal           |-> IF raises THEN <<>> ELSE SumDim1(product)]

\* NoiseBandNet._synthesize(amplitudes): the same statements, on the network's
\* own _noisebands_shift and resampling_factor.
NoiseBandNet_synthesize(shift, amps, r, isTraining, k) ==
  LET upsampled_amplitudes == Interpolate(amps, r)
      n            == Len(upsampled_amplitudes[1][1])
      looped_bands == LoopedBands(shift, isTraining, k, n)
      raises       == MulRaises(upsampled_amplitudes, <<looped_bands>>)
      product      == Mul3(upsampled_amplitudes, <<looped_bands>>)
  IN [noisebands_shift |-> NextShift(shift, upsampled_amplitudes),
      looped_bands     |-> looped_bands,
      raised           |-> IF raises THEN "RuntimeError" ELSE None,
      signal           |-> IF raises THEN <<>> ELSE SumDim1(product)]


\* ------------------------------------------------------------- SineSynth
\* torch.zeros(batch_size, n_sines)
Zeros(batch_size, n_sines) == Tup([b \in 1..batch_size |-> Tup([c \in 1..n_sines |-> 0])])

\* Tensor.cumsum_(dim=-1) of a 3-D tensor
CumSum(x) ==
  Tup([b \in 1..Len(x) |-> Tup([c \in 1..Len(x[b]) |->
    Tup([t \in 1..Len(x[b][c]) |-> SumSeq(SubSeq(x[b][c], 1, t))])])])

\* 2 * math.pi, in twelfths of a turn
TwoPi == 12

\* x % (2 * math.pi) of a 3-D tensor
Mod2Pi(x) ==
  Tup([b \in 1..Len(x) |-> Tup([c \in 1..Len(x[b]) |->
    Tup([t \in 1..Len(x[b][c]) |-> x[b][c][t] % TwoPi])])])

\* twice the sine of k twelfths of a turn, as <<p, q>> for p + q * sqrt(3)
SinTable ==
  << <<0, 0>>, <<1, 0>>, <<0, 1>>, <<2, 0>>, <<0, 1>>, <<1, 0>>,
     <<0, 0>>, <<-1, 0>>, <<0, -1>>, <<-2, 0>>, <<0, -1>>, <<-1, 0>> >>

\* part i (1: the rational part, 2: the sqrt(3) part) of twice torch.sin of a
\* 3-D tensor
Sin(x, i) ==
  Tup([b \in 1..Len(x) |-> Tup([c \in 1..Len(x[b]) |->
    Tup([t \in 1..Len(x[b][c]) |-> SinTable[(x[b][c][t] % TwoPi) + 1][i]])])])

\* the 3-D tensor of the pairs <<p[b][c][t], q[b][c][t]>>
Pairs(p, q) ==
  Tup([b \in 1..Len(p) |-> Tup([c \in 1..Len(p[b]) |->
    Tup([t \in 1..Len(p[b][c]) |-> <<p[b][c][t], q[b][c][t]>>])])])

\* torch.sum(amplitudes * torch.sin(phases), dim=1, keepdim=True), doubled
SineMix(amps, x) ==
  Pairs(SumDim1(Mul3(amps, Sin(x, 1))), SumDim1(Mul3(amps, Sin(x, 2))))

\* The phases buffer a call works with: allocated anew, as zeros, in streaming
\* mode when there is none or its batch size is not the call's.
AllocAlways(state, isStreaming, batch_size, n_sines) ==
  IF isStreaming THEN Zeros(batch_size, n_sines) ELSE state

Alloc(state, isStreaming, batch_size, n_sines) ==
  IF isStreaming /\ (state = <<>> \/ Len(state) # batch_size)
  THEN Zeros(batch_size, n_sines)
  ELSE state

\* (phases.permute(2, 0, 1) + self._phases).permute(1, 2, 0): the buffer, of
\* shape (B, n_sines), is broadcast against every time step of phases, of
\* shape (B, C, T)
ShiftPhasesNot(x, buffer) == x

ShiftPhases(x, buffer) ==
  LET C == Len(x[1])
      n == Len(buffer[1])
  IN Tup([b \in 1..Len(x) |-> Tup([c \in 1..Max(C, n) |->
       Tup([t \in 1..Len(x[b][1]) |-> x[b][BIdx(c, C)][t] + buffer[b][BIdx(c, n)]])])])

\* self._phases.copy_(phases[:, :, -1] % (2 * math.pi)): the last time step,
\* broadcast to the buffer's shape
LastPhases(x, buffer) ==
  Tup([b \in 1..Len(buffer) |-> Tup([c \in 1..Len(buffer[b]) |->
    x[b][BIdx(c, Len(x[b]))][Len(x[b][1])] % TwoPi])])

SineSynth_callStreamingAnyway(state, isStreaming, n_sines, freqs, amps, r) ==
  LET carrying   == TRUE
  IN
  LET batch_size == Len(freqs)
      buffer     == Alloc(state, carrying, batch_size, n_sines)
      up_freqs   == Interpolate(freqs, r)
      up_amps    == Interpolate(amps, r)
      omegas     == up_freqs
      wrapped    == Mod2Pi(CumSum(omegas))
      C          == Len(freqs[1])
      raises157  == carrying /\ ~Broadcastable(C, n_sines)
      shifted    == IF carrying /\ ~raises157 THEN ShiftPhases(wrapped, buffer)
                    ELSE wrapped
      raises160  == carrying /\ ~raises157 /\ Len(shifted[1]) \notin {n_sines, 1}
      raises163  == ~raises157 /\ ~raises160 /\ MulRaises(up_amps, shifted)
      raises     == raises157 \/ raises160 \/ raises163
  IN [phases |-> IF ~carrying THEN state
                 ELSE IF raises157 \/ raises160 THEN buffer
                 ELSE LastPhases(shifted, buffer),
      phi    |-> IF raises THEN <<>> ELSE shifted,
      raised |-> IF raises THEN "RuntimeError" ELSE None,
      signal |-> IF raises THEN <<>> ELSE SineMix(up_amps, shifted)]

\* SineSynth.__call__(frequencies, amplitudes) from self._phases = state.
\* Frequencies are in units of fs * r / 6 Hz, so omegas are whole twelfths of
\* a turn per sample (times 2r, as every upsampled value).  A call can raise
\* torch's RuntimeError where shapes cannot be broadcast: adding the buffer
\* (line 157), copying into it (line 160), multiplying by the amplitudes
\* (line 163); what it did to self._phases before stays done.
SineSynth_call(state, isStreaming, n_sines, freqs, amps, r) ==
  LET batch_size == Len(freqs)
      buffer     == Alloc(state, isStreaming, batch_size, n_sines)
      up_freqs   == Interpolate(freqs, r)
      up_amps    == Interpolate(amps, r)
      omegas     == up_freqs
      wrapped    == Mod2Pi(CumSum(omegas))
      C          == Len(freqs[1])
      raises157  == isStreaming /\ ~Broadcastable(C, n_sines)
      shifted    == IF isStreaming /\ ~raises157 THEN ShiftPhases(wrapped, buffer)
                    ELSE wrapped
      raises160  == isStreaming /\ ~raises157 /\ Len(shifted[1]) \notin {n_sines, 1}
      raises163  == ~raises157 /\ ~raises160 /\ MulRaises(up_amps, shifted)
      raises     == raises157 \/ raises160 \/ raises163
  IN [phases |-> IF ~isStreaming THEN state
                 ELSE IF raises157 \/ raises160 THEN buffer
                 ELSE LastPhases(shifted, buffer),
      phi    |-> IF raises THEN <<>> ELSE shifted,
      raised |-> IF raises THEN "RuntimeError" ELSE None,
      signal |-> IF raises THEN <<>> ELSE SineMix(up_amps, shifted)]

\* ------------------------------------------------------------- the host: noise
\* Three noise generators built over one FilterBank with the same resampling
\* factor are handed the same control trajectories: "whole" (a NoiseBandSynth)
\* renders each trajectory in one call, "chunked" (a NoiseBandSynth) renders it
\* in consecutive calls of any lengths, "net" (a NoiseBandNet) synthesizes it in
\* one forward pass.  When evaluating, the host concatenates what the calls
\* of a trajectory return; when training it hands each result to the loss and
\* keeps none.
Gens == {"whole", "chunked", "net"}

\* The control trajectories the host renders, of shape (B, C, L): each steps
\* once, after s control steps, from one level to another, and differs between
\* channels and between batch elements.
ControlInput(B, C, L, s) ==
  Tup([b \in 1..B |-> Tup([c \in 1..C |->
    Tup([t \in 1..L |-> (IF t > s THEN 2 ELSE 1) * c + (b - 1)])])])

ControlInputs(B, C, L) == { ControlInput(B, C, L, s) : s \in 0..L }

AmplitudeInputs(B, C, L) == ControlInputs(B, C, L)

\* no call of this trajectory yet
NoCall == [from |-> -1, shift |-> 0]

TrajLen == IF amplitudes = <<>> THEN 0 ELSE Len(amplitudes[1][1])

\* the noise generators, constructed
NoiseConstructed ==
  /\ resampling_factor \in 1..MaxFactor
  /\ training = TRUE
  /\ noisebands_shift = [g \in Gens |-> 0]
  /\ amplitudes = <<>>
  /\ pos = [g \in Gens |-> 0]
  /\ looped = [g \in Gens |-> <<>>]
  /\ signal = [g \in Gens |-> <<>>]
  /\ rendered = [g \in Gens |-> 0]
  /\ trajectories = 0
  /\ start = [g \in Gens |-> 0]
  /\ calls = [g \in Gens |-> 0]
  /\ last = [g \in Gens |-> NoCall]

\* The host puts the generators in training or evaluation mode and starts on a
\* new trajectory.
NewTrajectory(B, L, mode) ==
  /\ TrajLen = 0
  /\ trajectories < MaxTrajectories
  /\ trajectories' = trajectories + 1
  /\ amplitudes' \in AmplitudeInputs(B, NFilters, L)
  /\ training' = mode
  /\ start' = noisebands_shift
  /\ UNCHANGED <<resampling_factor, noisebands_shift, rendered, calls, pos,
                 looped, signal, last>>
  /\ UNCHANGED <<sineVars, registerVars, callVars, initVars, twinVars, pairVars>>

\* Once every generator has rendered the trajectory, the host hands the
\* signals on and lets go of them and of the trajectory.
EndTrajectory ==
  /\ TrajLen > 0
  /\ \A g \in Gens : pos[g] = TrajLen
  /\ amplitudes' = <<>>
  /\ calls' = [g \in Gens |-> 0]
  /\ pos' = [g \in Gens |-> 0]
  /\ looped' = [g \in Gens |-> <<>>]
  /\ signal' = [g \in Gens |-> <<>>]
  /\ last' = [g \in Gens |-> NoCall]
  /\ UNCHANGED <<resampling_factor, training, noisebands_shift, rendered,
                 trajectories, start>>
  /\ UNCHANGED <<sineVars, registerVars, callVars, initVars, twinVars, pairVars>>

\* What a call of generator g on the next len control steps leaves behind.
Rendered(g, len, res) ==
  /\ noisebands_shift' = [noisebands_shift EXCEPT ![g] = res.noisebands_shift]
  /\ looped' = IF training THEN looped
               ELSE [looped EXCEPT ![g] = Cat2(@, res.looped_bands)]
  /\ signal' = IF training THEN signal
               ELSE [signal EXCEPT ![g] = Cat3(@, res.signal)]
  /\ pos' = [pos EXCEPT ![g] = @ + len]
  /\ rendered' = [rendered EXCEPT ![g] = @ + len * resampling_factor]
  /\ calls' = [calls EXCEPT ![g] = @ + 1]
  /\ last' = [last EXCEPT ![g] = [from |-> pos[g], shift |-> noisebands_shift[g]]]
  /\ UNCHANGED <<resampling_factor, training, amplitudes, trajectories, start>>
  /\ UNCHANGED <<sineVars, registerVars, callVars, initVars, twinVars, pairVars>>

\* what torch.randint(0, noisebands.shape[-1]) draws; nothing is drawn in
\* evaluation mode
RollInputs == IF training THEN 0..(BandLen - 1) ELSE {0}

\* "whole" renders the trajectory in one call.
RenderWhole ==
  /\ TrajLen > 0 /\ pos["whole"] = 0
  /\ \E k \in RollInputs :
       Rendered("whole", TrajLen,
                NoiseBandSynth_call(noisebands_shift["whole"], amplitudes,
                                    resampling_factor, training, k))

\* "chunked" renders the next len control steps of the trajectory.
RenderChunk(len) ==
  /\ pos["whole"] = TrajLen
  /\ pos["chunked"] + len <= TrajLen
  /\ \E k \in RollInputs :
       Rendered("chunked", len,
                NoiseBandSynth_call(noisebands_shift["chunked"],
                                    Slice3(amplitudes, pos["chunked"], pos["chunked"] + len),
                                    resampling_factor, training, k))

\* "net" synthesizes the trajectory in one forward pass.
NetSynthesize ==
  /\ TrajLen > 0 /\ pos["chunked"] = TrajLen /\ pos["net"] = 0
  /\ \E k \in RollInputs :
       Rendered("net", TrajLen,
                NoiseBandNet_synthesize(noisebands_shift["net"], amplitudes,
                                        resampling_factor, training, k))

NextNoise ==
  \/ \E B \in 1..MaxBatch, L \in 1..MaxLen, mode \in BOOLEAN : NewTrajectory(B, L, mode)
  \/ EndTrajectory
  \/ RenderWhole
  \/ \E len \in 1..MaxLen : RenderChunk(len)
  \/ NetSynthesize

\* ------------------------------------------------------------- the host: sines
\* Two SineSynths constructed with the same arguments are handed the same
\* frequency and amplitude trajectories: "whole" renders each trajectory in one
\* call, "chunked" in consecutive calls of any lengths.  The host concatenates
\* what the calls of a trajectory return.
SineGens == {"whole", "chunked"}

NoSineCall == [from |-> -1, phases |-> <<>>]

SineTrajLen == IF frequencies = <<>> THEN 0 ELSE Len(frequencies[1][1])

\* the sine generators, constructed
SineConstructed ==
  /\ sine_factor \in 1..MaxFactor
  /\ streaming \in BOOLEAN
  /\ phases = [g \in SineGens |-> <<>>]
  /\ frequencies = <<>>
  /\ sine_amplitudes = <<>>
  /\ sine_pos = [g \in SineGens |-> 0]
  /\ sine_signal = [g \in SineGens |-> <<>>]
  /\ sine_phi = [g \in SineGens |-> <<>>]
  /\ sine_last = [g \in SineGens |-> NoSineCall]
  /\ sine_start = [g \in SineGens |-> <<>>]
  /\ sine_cuts = [g \in SineGens |-> {}]
  /\ sine_batch = [g \in SineGens |-> 0]
  /\ sine_trajectories = 0

\* The host starts on a new trajectory of frequencies and amplitudes; the
\* amplitudes step where the frequencies do.
NewSineTrajectory(B, L) ==
  /\ SineTrajLen = 0
  /\ sine_trajectories < MaxTrajectories
  /\ sine_trajectories' = sine_trajectories + 1
  /\ frequencies' \in ControlInputs(B, NSines, L)
  /\ sine_amplitudes' = frequencies'
  /\ sine_start' = phases
  /\ UNCHANGED <<sine_factor, streaming, phases, sine_pos, sine_signal, sine_phi,
                 sine_last, sine_cuts, sine_batch>>
  /\ UNCHANGED <<noiseVars, registerVars, callVars, initVars, twinVars, pairVars>>

\* Once both generators have rendered the trajectory, the host hands the
\* signals on and lets go of them and of the trajectory.
EndSineTrajectory ==
  /\ SineTrajLen > 0
  /\ \A g \in SineGens : sine_pos[g] = SineTrajLen
  /\ frequencies' = <<>>
  /\ sine_amplitudes' = <<>>
  /\ sine_pos' = [g \in SineGens |-> 0]
  /\ sine_signal' = [g \in SineGens |-> <<>>]
  /\ sine_phi' = [g \in SineGens |-> <<>>]
  /\ sine_last' = [g \in SineGens |-> NoSineCall]
  /\ sine_cuts' = [g \in SineGens |-> {}]
  /\ UNCHANGED <<sine_factor, streaming, phases, sine_start, sine_batch,
                 sine_trajectories>>
  /\ UNCHANGED <<noiseVars, registerVars, callVars, initVars, twinVars, pairVars>>

\* Sine generator g is called on the next len control steps of the trajectory.
SineRender(g, len) ==
  LET res == SineSynth_call(phases[g], streaming, NSines,
                            Slice3(frequencies, sine_pos[g], sine_pos[g] + len),
                            Slice3(sine_amplitudes, sine_pos[g], sine_pos[g] + len),
                            sine_factor)
  IN /\ phases' = [phases EXCEPT ![g] = res.phases]
     /\ sine_signal' = [sine_signal EXCEPT ![g] = Cat3(@, res.signal)]
     /\ sine_phi' = [sine_phi EXCEPT ![g] = res.phi]
     /\ sine_pos' = [sine_pos EXCEPT ![g] = @ + len]
     /\ sine_last' = [sine_last EXCEPT ![g] = [from |-> sine_pos[g], phases |-> phases[g]]]
     /\ sine_cuts' = [sine_cuts EXCEPT ![g] = @ \cup ({sine_pos[g]} \ {0})]
     /\ sine_batch' = [sine_batch EXCEPT ![g] = Len(frequencies)]
     /\ UNCHANGED <<sine_factor, streaming, frequencies, sine_amplitudes, sine_start,
                    sine_trajectories>>
     /\ UNCHANGED <<noiseVars, registerVars, callVars, initVars, twinVars, pairVars>>

\* "whole" renders the trajectory in one call.
SineRenderWhole ==
  /\ SineTrajLen > 0 /\ sine_pos["whole"] = 0
  /\ SineRender("whole", SineTrajLen)

\* "chunked" renders the next len control steps of the trajectory.
SineRenderChunk(len) ==
  /\ sine_pos["whole"] = SineTrajLen
  /\ sine_pos["chunked"] + len <= SineTrajLen
  /\ SineRender("chunked", len)

NextSine ==
  \/ \E B \in 1..MaxBatch, L \in 1..MaxLen : NewSineTrajectory(B, L)
  \/ EndSineTrajectory
  \/ SineRenderWhole
  \/ \E len \in 1..MaxLen : SineRenderChunk(len)

\* ------------------------------------------------------------- HarmonicSynth
\* torch.arange(1, n_harmonics + 1).reshape(1, -1, 1)
Harmonics(n_harmonics) == << Tup([h \in 1..n_harmonics |-> <<h>>]) >>

\* A fundamental is given with its number of dimensions: [dims |-> 3, data |->
\* a tensor of shape (B, 1, L)] or [dims |-> 2, data |-> one of shape (B, L)].
\* Broadcasting aligns shapes from the right: (B, L) is taken as (1, B, L).
Unsqueezed(fundamental) ==
  IF fundamental.dims = 2 THEN <<fundamental.data>> ELSE fundamental.data

\* frequencies = fundamental * harmonics
HarmonicFrequencies(fundamental, n_harmonics) ==
  Mul3(Unsqueezed(fundamental), Harmonics(n_harmonics))

\* HarmonicSynth.__call__(fundamental, amplitudes) from self._phases = state
HarmonicSynth_call(state, isStreaming, n_harmonics, fundamental, amps, r) ==
  IF MulRaises(Unsqueezed(fundamental), Harmonics(n_harmonics))
  THEN [phases |-> state, phi |-> <<>>, raised |-> "RuntimeError", signal |-> <<>>,
        frequencies |-> <<>>]
  ELSE [frequencies |-> HarmonicFrequencies(fundamental, n_harmonics)] @@
       SineSynth_call(state, isStreaming, n_harmonics,
                      HarmonicFrequencies(fundamental, n_harmonics), amps, r)

\* ------------------------------------------------------------- SynthRegister
\* call_params of the three classes, as the sequence of the slot widths
CallParams(class) ==
  CASE class = "NoiseBandSynth" -> <<NFilters>>
    [] class = "SineSynth"      -> <<NSines, NSines>>
    [] class = "HarmonicSynth"  -> <<1, NHarmonics>>

\* BaseSynth.total_params
SynthTotalParams(call_params) == SumSeq(call_params)

\* SynthRegister.total_params
TotalParams(registered) ==
  SumSeq([i \in 1..Len(registered) |-> SynthTotalParams(registered[i])])

\* x[:, :, from : to] of a tensor of shape (batch, time, width), as Python
\* slices: what lies beyond the width is left out
Columns(x, from, to) ==
  Tup([b \in 1..Len(x) |-> Tup([t \in 1..Len(x[b]) |->
    SubSeq(x[b][t], from + 1, IF to < Len(x[b][t]) THEN to ELSE Len(x[b][t]))])])

\* torch.split(x, sizes, dim=-1): the chunks of the last dimension, of the
\* given sizes; it raises unless the sizes sum to the dimension
SplitRaises(x, sizes) == SumSeq(sizes) # Len(x[1][1])

Split(x, sizes) ==
  Tup([j \in 1..Len(sizes) |->
    Columns(x, SumSeq(SubSeq(sizes, 1, j - 1)), SumSeq(SubSeq(sizes, 1, j)))])

\* the slice of params split_params takes for synth i: params_offset is set to
\* 0 before the loop and the loop does not assign it
SynthParams(registered, x, i) ==
  LET params_offset == 0
  IN Columns(x, params_offset, params_offset + SynthTotalParams(registered[i]))

\* SynthRegister.split_params(params)
SynthRegister_split_params(registered, x) ==
  IF \E i \in 1..Len(registered) : SplitRaises(SynthParams(registered, x, i), registered[i])
  THEN [raised |-> "RuntimeError", params_list |-> <<>>]
  ELSE [raised |-> None,
        params_list |-> Tup([i \in 1..Len(registered) |->
                          Split(SynthParams(registered, x, i), registered[i])])]

\* ------------------------------------------------------------- the host: register
Classes == {"NoiseBandSynth", "SineSynth", "HarmonicSynth"}

\* the flat tensors the host splits, of shape (B, T, W): every column differs
\* from every other
FlatInput(B, T, W) ==
  Tup([b \in 1..B |-> Tup([t \in 1..T |-> Tup([w \in 1..W |-> 100 * b + 10 * t + w])])])

\* the widths of the flat tensors: up to one more than the widest register
Widths == 1..(MaxSynths * Max(NFilters, Max(2 * NSines, 1 + NHarmonics)) + 1)

\* SynthRegister.__init__
RegisterConstructed ==
  /\ synths = <<>>
  /\ params = <<>>
  /\ params_list = <<>>
  /\ split_raised = None

\* SynthRegister.register(synth): the host populates the register before it
\* splits any tensor
Register(class) ==
  /\ Len(synths) < MaxSynths
  /\ params = <<>>
  /\ synths' = Append(synths, CallParams(class))
  /\ UNCHANGED <<params, params_list, split_raised>>
  /\ UNCHANGED <<noiseVars, sineVars, callVars, initVars, twinVars, pairVars>>

\* The host calls split_params on a flat tensor of any width.
SplitParams(B, T, W) ==
  /\ W <= TotalParams(synths) + 1
  /\ params' = FlatInput(B, T, W)
  /\ params_list' = SynthRegister_split_params(synths, params').params_list
  /\ split_raised' = SynthRegister_split_params(synths, params').raised
  /\ UNCHANGED synths
  /\ UNCHANGED <<noiseVars, sineVars, callVars, initVars, twinVars, pairVars>>

NextRegister ==
  \/ \E class \in Classes : Register(class)
  \/ \E B \in 1..MaxBatch, T \in 1..MaxLen, W \in Widths : SplitParams(B, T, W)

\* ------------------------------------------------------------- the host: any call
\* One generator, of any of the three classes, is called on arguments of any
\* shape: the amplitudes have any number of channels, the fundamental two or
\* three dimensions.
NoArgs == [amplitudes |-> <<>>, frequencies |-> <<>>, fundamental |-> [dims |-> 0, data |-> <<>>]]

NoResult == [raised |-> None, signal |-> <<>>, frequencies |-> <<>>, called |-> FALSE]

CallConstructed ==
  /\ kind \in Classes
  /\ call_factor \in 1..MaxFactor
  /\ call_streaming \in (IF kind = "NoiseBandSynth" THEN {FALSE} ELSE BOOLEAN)
  /\ call_count = 0
  /\ call_shift = 0
  /\ call_phases = <<>>
  /\ call_args = NoArgs
  /\ call_before = [shift |-> 0, phases |-> <<>>]
  /\ call_res = NoResult

\* the fundamentals of batch size B and control length L, in both shapes
FundamentalInput(B, L, s, dims) ==
  LET f == ControlInput(B, 1, L, s)
  IN [dims |-> dims, data |-> IF dims = 3 THEN f ELSE Tup([b \in 1..B |-> f[b][1]])]

CallDone(args, shift, phase, res) ==
  /\ call_count < MaxCalls
  /\ call_count' = call_count + 1
  /\ call_args' = args
  /\ call_before' = [shift |-> call_shift, phases |-> call_phases]
  /\ call_shift' = shift
  /\ call_phases' = phase
  /\ call_res' = res
  /\ UNCHANGED <<kind, call_factor, call_streaming>>
  /\ UNCHANGED <<noiseVars, sineVars, registerVars, initVars, twinVars, pairVars>>

\* NoiseBandSynth.__call__(amplitudes), in evaluation mode
CallNoiseBandSynth(amps) ==
  /\ kind = "NoiseBandSynth"
  /\ LET res == NoiseBandSynth_call(call_shift, amps, call_factor, FALSE, 0)
     IN CallDone([NoArgs EXCEPT !.amplitudes = amps], res.noisebands_shift, call_phases,
                 [raised |-> res.raised, signal |-> res.signal, frequencies |-> <<>>,
                  called |-> TRUE])

\* SineSynth.__call__(frequencies, amplitudes)
CallSineSynth(B, L, C, s) ==
  /\ kind = "SineSynth"
  /\ s <= L
  /\ LET freqs == ControlInput(B, NSines, L, s)
         amps == ControlInput(B, C, L, s)
         res == SineSynth_call(call_phases, call_streaming, NSines, freqs, amps, call_factor)
     IN CallDone([NoArgs EXCEPT !.amplitudes = amps, !.frequencies = freqs],
                 call_shift, res.phases,
                 [raised |-> res.raised, signal |-> res.signal, frequencies |-> freqs,
                  called |-> TRUE])

\* HarmonicSynth.__call__(fundamental, amplitudes)
CallHarmonicSynth(B, L, C, s, dims) ==
  /\ kind = "HarmonicSynth"
  /\ s <= L
  /\ LET fundamental == FundamentalInput(B, L, s, dims)
         amps == ControlInput(B, C, L, s)
         res == HarmonicSynth_call(call_phases, call_streaming, NHarmonics, fundamental,
                                   amps, call_factor)
     IN CallDone([NoArgs EXCEPT !.amplitudes = amps, !.fundamental = fundamental],
                 call_shift, res.phases,
                 [raised |-> res.raised, signal |-> res.signal,
                  frequencies |-> res.frequencies, called |-> TRUE])

NextCall ==
  \/ \E B \in 1..MaxBatch, L \in 1..MaxLen, C \in 1..(NFilters + 1) :
       \E amps \in ControlInputs(B, C, L) : CallNoiseBandSynth(amps)
  \/ \E B \in 1..MaxBatch, L \in 1..MaxLen, C \in 1..(NSines + 1), s \in 0..MaxLen :
       CallSineSynth(B, L, C, s)
  \/ \E B \in 1..MaxBatch, L \in 1..MaxLen, C \in 1..(NHarmonics + 1), s \in 0..MaxLen :
       \E dims \in {2, 3} : CallHarmonicSynth(B, L, C, s, dims)

\* ------------------------------------------------------------- the host: construction
\* The host constructs generators with any arguments.  Python does not enforce
\* the int annotations, so a resampling factor is any number: the model gives
\* it in halves (3 is 1.5), which takes in negative, zero and non-integer
\* factors.
FactorInputs == (0 - 2)..(2 * MaxFactor)

NoInstance == [class |-> "none", n |-> 0, resampling_factor |-> 0, streaming |-> FALSE]

NothingConstructed ==
  /\ attempt = NoInstance
  /\ instance = NoInstance
  /\ init_raised = None

\* FilterBank(n_filters, fs): what it does without any filter lies outside
\* this code; it builds the bank or raises an error of its own.
FilterBankOutcomes(n_filters) == IF n_filters = 0 THEN {"built", "raised"} ELSE {"built"}

Constructed(args, raised) ==
  /\ attempt' = args
  /\ instance' = IF raised = None THEN args ELSE NoInstance
  /\ init_raised' = raised
  /\ UNCHANGED <<noiseVars, sineVars, registerVars, callVars, twinVars, pairVars>>

\* NoiseBandSynth.__init__(n_filters, fs, resampling_factor)
NewNoiseBandSynth(n_filters, factor, outcome) ==
  /\ outcome \in FilterBankOutcomes(n_filters)
  /\ Constructed([class |-> "NoiseBandSynth", n |-> n_filters,
                  resampling_factor |-> factor, streaming |-> FALSE],
                 IF outcome = "raised" THEN "Exception" ELSE None)

\* SineSynth.__init__(fs, n_sines, resampling_factor, streaming)
NewSineSynth(n_sines, factor, isStreaming) ==
  /\ isStreaming \in BOOLEAN
  /\ Constructed([class |-> "SineSynth", n |-> n_sines,
                  resampling_factor |-> factor, streaming |-> isStreaming], None)

\* HarmonicSynth.__init__(fs, n_harmonics, resampling_factor, streaming)
NewHarmonicSynth(n_harmonics, factor, isStreaming) ==
  /\ isStreaming \in BOOLEAN
  /\ Constructed([class |-> "HarmonicSynth", n |-> n_harmonics,
                  resampling_factor |-> factor, streaming |-> isStreaming], None)

NextInit ==
  \/ \E n \in 0..NSines, factor \in FactorInputs, st \in BOOLEAN : NewSineSynth(n, factor, st)
  \/ \E n \in 0..NHarmonics, factor \in FactorInputs, st \in BOOLEAN :
       NewHarmonicSynth(n, factor, st)
  \/ \E n \in 0..NFilters, factor \in FactorInputs, outcome \in {"built", "raised"} :
       NewNoiseBandSynth(n, factor, outcome)

\* ------------------------------------------------------------- the host: twins
\* Two generators of one class, built with the same arguments and put in the
\* same mode, are called in rounds: in each round both are called once, in any
\* order, with the same arguments.
Twins == {"first", "second"}

TwinsConstructed ==
  /\ twin_kind \in Classes
  /\ twin_factor \in 1..MaxFactor
  /\ twin_streaming \in (IF twin_kind = "NoiseBandSynth" THEN {FALSE} ELSE BOOLEAN)
  /\ twin_training \in (IF twin_kind = "NoiseBandSynth" THEN BOOLEAN ELSE {FALSE})
  /\ twin_shift = [i \in Twins |-> 0]
  /\ twin_phases = [i \in Twins |-> <<>>]
  /\ twin_args = NoArgs
  /\ twin_start = [i \in Twins |-> [shift |-> 0, phases |-> <<>>]]
  /\ twin_out = [i \in Twins |-> <<>>]
  /\ twin_done = [i \in Twins |-> FALSE]
  /\ twin_rounds = 0

\* the arguments of a call of a generator of the class, of the declared shapes
TwinArgs(class, B, L, s) ==
  CASE class = "NoiseBandSynth" ->
         [NoArgs EXCEPT !.amplitudes = ControlInput(B, NFilters, L, s)]
    [] class = "SineSynth" ->
         [NoArgs EXCEPT !.amplitudes = ControlInput(B, NSines, L, s),
                        !.frequencies = ControlInput(B, NSines, L, s)]
    [] class = "HarmonicSynth" ->
         [NoArgs EXCEPT !.amplitudes = ControlInput(B, NHarmonics, L, s),
                        !.fundamental = FundamentalInput(B, L, s, 3)]

\* The host starts a round, on trajectories that step after the first control
\* step (s = 1) or not at all (s = 0).
TwinNewRound(B, L, s) ==
  /\ twin_rounds < MaxCalls
  /\ \A i \in Twins : twin_done[i] = (twin_rounds > 0)
  /\ twin_rounds' = twin_rounds + 1
  /\ twin_args' = TwinArgs(twin_kind, B, L, s)
  /\ twin_start' = [i \in Twins |-> [shift |-> twin_shift[i], phases |-> twin_phases[i]]]
  /\ twin_out' = [i \in Twins |-> <<>>]
  /\ twin_done' = [i \in Twins |-> FALSE]
  /\ UNCHANGED <<twin_kind, twin_factor, twin_streaming, twin_training, twin_shift,
                 twin_phases>>
  /\ UNCHANGED <<noiseVars, sineVars, registerVars, callVars, initVars, pairVars>>

\* what a call of twin i with the round's arguments returns and leaves, k
\* being what torch.randint would draw
TwinCall(i, k) ==
  CASE twin_kind = "NoiseBandSynth" ->
         LET res == NoiseBandSynth_call(twin_shift[i], twin_args.amplitudes, twin_factor,
                                        twin_training, k)
         IN [shift |-> res.noisebands_shift, phases |-> twin_phases[i],
             signal |-> res.signal]
    [] twin_kind = "SineSynth" ->
         LET res == SineSynth_call(twin_phases[i], twin_streaming, NSines,
                                   twin_args.frequencies, twin_args.amplitudes, twin_factor)
         IN [shift |-> twin_shift[i], phases |-> res.phases, signal |-> res.signal]
    [] twin_kind = "HarmonicSynth" ->
         LET res == HarmonicSynth_call(twin_phases[i], twin_streaming, NHarmonics,
                                       twin_args.fundamental, twin_args.amplitudes,
                                       twin_factor)
         IN [shift |-> twin_shift[i], phases |-> res.phases, signal |-> res.signal]

\* what torch.randint can draw in a call: only NoiseBandSynth has a draw
TwinRollInputs == IF twin_kind = "NoiseBandSynth" THEN 0..(BandLen - 1) ELSE {0}

\* Twin i is called with the round's arguments.
TwinRender(i, k) ==
  /\ twin_rounds > 0
  /\ ~twin_done[i]
  /\ k \in TwinRollInputs
  /\ LET res == TwinCall(i, k)
     IN /\ twin_shift' = [twin_shift EXCEPT ![i] = res.shift]
        /\ twin_phases' = [twin_phases EXCEPT ![i] = res.phases]
        /\ twin_out' = [twin_out EXCEPT ![i] = res.signal]
  /\ twin_done' = [twin_done EXCEPT ![i] = TRUE]
  /\ UNCHANGED <<twin_kind, twin_factor, twin_streaming, twin_training, twin_args,
                 twin_start, twin_rounds>>
  /\ UNCHANGED <<noiseVars, sineVars, registerVars, callVars, initVars, pairVars>>

NextTwin ==
  \/ \E B \in 1..MaxBatch, L \in 1..MaxLen, s \in {0, 1} : TwinNewRound(B, L, s)
  \/ \E i \in Twins, k \in 0..(BandLen - 1) : TwinRender(i, k)

\* ------------------------------------------------------------- the host: a pair
\* A NoiseBandSynth and a SineSynth, both in evaluation mode and with the same
\* resampling factor, are called by the host in any interleaving.
PairConstructed ==
  /\ pair_factor \in 1..MaxFactor
  /\ pair_streaming \in BOOLEAN
  /\ pair_bands = Noisebands
  /\ pair_shift = 0
  /\ pair_phases = <<>>
  /\ pair_noise_calls = <<>>
  /\ pair_sine_calls = <<>>
  /\ pair_noise_out = <<>>
  /\ pair_sine_out = <<>>

\* self._noisebands after torch.roll(self._noisebands, shifts, dims=-1):
\* torch.roll returns a new tensor, and repeat, the trimming slice and .to()
\* work on that one
BandsRolledInPlace(bands, shift) == RollRight(bands, shift)

BandsAfterRoll(bands, shift) == bands

\* The pair's NoiseBandSynth is called on a trajectory that steps after the
\* first control step.
PairCallNoise(B, L) ==
  /\ Len(pair_noise_calls) + Len(pair_sine_calls) < MaxCalls
  /\ LET amps == ControlInput(B, NFilters, L, 1)
         res  == NoiseBandSynth_call(pair_shift, amps, pair_factor, FALSE, 0)
     IN /\ pair_noise_calls' = Append(pair_noise_calls, amps)
        /\ pair_bands' = BandsAfterRoll(pair_bands, pair_shift)
        /\ pair_shift' = res.noisebands_shift
        /\ pair_noise_out' = res.signal
  /\ UNCHANGED <<pair_factor, pair_streaming, pair_phases, pair_sine_calls, pair_sine_out>>
  /\ UNCHANGED <<noiseVars, sineVars, registerVars, callVars, initVars, twinVars>>

\* The pair's SineSynth is called on such trajectories.
PairCallSine(B, L) ==
  /\ Len(pair_noise_calls) + Len(pair_sine_calls) < MaxCalls
  /\ LET ctl == ControlInput(B, NSines, L, 1)
         res == SineSynth_call(pair_phases, pair_streaming, NSines, ctl, ctl, pair_factor)
     IN /\ pair_sine_calls' = Append(pair_sine_calls, ctl)
        /\ pair_phases' = res.phases
        /\ pair_sine_out' = res.signal
  /\ UNCHANGED <<pair_factor, pair_streaming, pair_bands, pair_shift, pair_noise_calls,
                 pair_noise_out>>
  /\ UNCHANGED <<noiseVars, sineVars, registerVars, callVars, initVars, twinVars>>

NextPair ==
  \/ \E B \in 1..MaxBatch, L \in 1..MaxLen : PairCallNoise(B, L)
  \/ \E B \in 1..MaxBatch, L \in 1..MaxLen : PairCallSine(B, L)

\* ------------------------------------------------------------- specifications
NoiseIdle == NoiseConstructed /\ resampling_factor = 1

SineIdle == SineConstructed /\ sine_factor = 1 /\ ~streaming

CallIdle == CallConstructed /\ kind = "NoiseBandSynth" /\ call_factor = 1 /\ ~call_streaming

TwinIdle ==
  TwinsConstructed /\ twin_kind = "NoiseBandSynth" /\ twin_factor = 1 /\ ~twin_training

PairIdle == PairConstructed /\ pair_factor = 1 /\ ~pair_streaming

InitNoise == NoiseConstructed /\ SineIdle /\ RegisterConstructed /\ CallIdle /\ NothingConstructed /\ TwinIdle
  /\ PairIdle

SpecNoise == InitNoise /\ [][NextNoise]_vars

InitSine == SineConstructed /\ NoiseIdle /\ RegisterConstructed /\ CallIdle /\ NothingConstructed /\ TwinIdle
  /\ PairIdle

SpecSine == InitSine /\ [][NextSine]_vars

InitRegister == RegisterConstructed /\ NoiseIdle /\ SineIdle /\ CallIdle /\ NothingConstructed /\ TwinIdle
  /\ PairIdle

SpecRegister == InitRegister /\ [][NextRegister]_vars

InitCall == CallConstructed /\ NoiseIdle /\ SineIdle /\ RegisterConstructed /\ NothingConstructed /\ TwinIdle
  /\ PairIdle

SpecCall == InitCall /\ [][NextCall]_vars

InitInit ==
  NothingConstructed /\ NoiseIdle /\ SineIdle /\ RegisterConstructed /\ CallIdle /\ TwinIdle
    /\ PairIdle

SpecInit == InitInit /\ [][NextInit]_vars

InitTwin ==
  TwinsConstructed /\ NoiseIdle /\ SineIdle /\ RegisterConstructed /\ CallIdle
    /\ NothingConstructed /\ PairIdle

SpecTwin == InitTwin /\ [][NextTwin]_vars

InitPair ==
  PairConstructed /\ NoiseIdle /\ SineIdle /\ RegisterConstructed /\ CallIdle
    /\ NothingConstructed /\ TwinIdle

SpecPair == InitPair /\ [][NextPair]_vars

\* ------------------------------------------------------------- claims: noise
Done(g) == TrajLen > 0 /\ pos[g] = TrajLen

\* The trajectory was rendered in evaluation mode by "whole" in one call and by
\* "chunked" in two consecutive calls, from the same read offset.
SplitInTwo ==
  /\ ~training
  /\ Done("whole") /\ Done("chunked")
  /\ calls["chunked"] = 2
  /\ start["whole"] = start["chunked"]

\* Output sample t (from 1) of a trajectory split after L1 control steps lies
\* at least half a control step from the split: linear upsampling of the
\* whole trajectory reads no control step across the split for it.
AwayFromSplit(t, L1, r) ==
  LET d == 2 * (t - 1) + 1 - 2 * r * L1
  IN d >= r \/ -d >= r

\* C1, as stated: in evaluation mode the outputs of two consecutive calls of
\* lengths L1 and L2, concatenated, are identical to the output of one call on
\* the whole trajectory from the same read offset.
C1_SplitSignalIdentical ==
  SplitInTwo => signal["chunked"] = signal["whole"]

\* C1, amended: in evaluation mode the two calls read, concatenated, the same
\* noiseband window as the one call and leave the same read offset, and the
\* concatenated output is identical to the one call's at every sample that lies
\* at least half a control step from the split; with resampling factor 1 that is
\* every sample.
C1_SplitWindowIdentical ==
  SplitInTwo =>
    /\ looped["chunked"] = looped["whole"]
    /\ noisebands_shift["chunked"] = noisebands_shift["whole"]
    /\ Shape3(signal["chunked"]) = Shape3(signal["whole"])
    /\ \A b \in 1..Len(signal["whole"]) :
         \A t \in 1..Len(signal["whole"][b][1]) :
           AwayFromSplit(t, last["chunked"].from, resampling_factor) =>
             signal["chunked"][b][1][t] = signal["whole"][b][1][t]
    /\ resampling_factor = 1 => signal["chunked"] = signal["whole"]

\* a split of a trajectory that started at a read offset other than 0, upsampled
C1_Witness ==
  /\ SplitInTwo
  /\ start["chunked"] # 0
  /\ resampling_factor > 1
  /\ Len(amplitudes) > 1

\* C2: every call on c control steps sets the read offset to (old offset +
\* c * resampling_factor) mod band length and returns c * resampling_factor
\* samples, whatever the batch size and the mode; so the read offset is the
\* sum of the output lengths rendered so far, modulo the band length.
C2_ShiftIsRenderedModBandLen ==
  \A g \in Gens :
    /\ noisebands_shift[g] = rendered[g] % BandLen
    /\ last[g].from >= 0 =>
         noisebands_shift[g] =
           (last[g].shift + (pos[g] - last[g].from) * resampling_factor) % BandLen
    /\ (~training /\ pos[g] > 0) =>
         /\ Len(signal[g]) = Len(amplitudes)
         /\ \A b \in 1..Len(signal[g]) :
              Len(signal[g][b][1]) = pos[g] * resampling_factor

\* a second trajectory, of batch size above 1, rendered in training mode after
\* more than a band length of output
C2_Witness ==
  /\ training
  /\ Done("chunked") /\ Done("net")
  /\ Len(amplitudes) > 1
  /\ rendered["chunked"] > BandLen
  /\ noisebands_shift["chunked"] # 0

\* C3: the read offset is one integer per generator, at least 0 and below the
\* band length, in every reachable state.
C3_ShiftInRange ==
  \A g \in Gens : noisebands_shift[g] \in 0..(BandLen - 1)

\* the read offset wrapped around to the last sample of the band, batch above 1
C3_Witness ==
  \E g \in Gens :
    /\ rendered[g] > BandLen
    /\ noisebands_shift[g] = BandLen - 1
    /\ TrajLen > 0 /\ Len(amplitudes) > 1

\* the chunk of the trajectory generator g's last call was given
LastChunk(g) == Slice3(amplitudes, last[g].from, pos[g])

\* what the same call leaves in evaluation mode
InEval(g) ==
  IF g = "net"
  THEN NoiseBandNet_synthesize(last[g].shift, LastChunk(g), resampling_factor, FALSE, 0)
  ELSE NoiseBandSynth_call(last[g].shift, LastChunk(g), resampling_factor, FALSE, 0)

\* C9: a call leaves the same read offset in training mode as the same call
\* from the same read offset leaves in evaluation mode, and in evaluation mode
\* the window the call reads starts exactly at the read offset.
C9_RollNotSaved ==
  \A g \in Gens :
    last[g].from >= 0 =>
      /\ noisebands_shift[g] = InEval(g).noisebands_shift
      /\ ~training =>
           \A f \in 1..NFilters :
             \A t \in 1..((pos[g] - last[g].from) * resampling_factor) :
               looped[g][f][last[g].from * resampling_factor + t]
                 = Noisebands[f][((last[g].shift + t - 1) % BandLen) + 1]

\* a training call and an evaluation call from a read offset other than 0
C9_WitnessTraining ==
  training /\ last["chunked"].from >= 0 /\ last["chunked"].shift # 0

C9_Witness ==
  ~training /\ last["chunked"].from > 0 /\ last["chunked"].shift # 0
    /\ pos["chunked"] - last["chunked"].from > 1

\* the NoiseBandSynths among the noise generators
Synths == {"whole", "chunked"}

\* C14: in evaluation mode a NoiseBandSynth that rendered n = control_len *
\* resampling_factor samples of a trajectory from read offset r has read, for
\* every band f and every output index t in 0..n-1, noisebands[f][(r + t) mod
\* band_length]: the window has exactly n samples, whether n is below, at or
\* above the band length, and the next call starts at (r + n) mod band_length.
C14_WindowFromReadOffset ==
  ~training =>
    \A g \in Synths :
      pos[g] > 0 =>
        LET n == pos[g] * resampling_factor
        IN /\ looped[g] =
                [f \in 1..NFilters |-> [t \in 1..n |->
                  Noisebands[f][((start[g] + t - 1) % BandLen) + 1]]]
           /\ noisebands_shift[g] = (start[g] + n) % BandLen

\* one call rendered more than a band length from a read offset other than 0
C14_Witness ==
  /\ ~training
  /\ Done("whole")
  /\ start["whole"] # 0
  /\ TrajLen * resampling_factor > BandLen

\* one call rendered exactly a band length: the next call starts where it did
C14_WitnessBandLength ==
  /\ ~training
  /\ Done("whole")
  /\ start["whole"] # 0
  /\ TrajLen * resampling_factor = BandLen
  /\ noisebands_shift["whole"] = start["whole"]

\* one call rendered less than a band length
C14_WitnessShort ==
  /\ ~training
  /\ Done("whole")
  /\ start["whole"] # 0
  /\ TrajLen * resampling_factor < BandLen

\* ------------------------------------------------------------- claims: sines
SineDone(g) == SineTrajLen > 0 /\ sine_pos[g] = SineTrajLen

\* The trajectory was rendered by "whole" in one call and by "chunked" in
\* consecutive calls, both streaming, from the same carried phases.
SineSplit ==
  /\ streaming
  /\ SineDone("whole") /\ SineDone("chunked")
  /\ sine_start["whole"] = sine_start["chunked"]

\* C4, as stated: for a streaming SineSynth the outputs of N consecutive calls
\* on the chunks of a trajectory, concatenated, match the output of one call on
\* the whole trajectory.
C4_ChunkedSignalIdentical ==
  SineSplit => sine_signal["chunked"] = sine_signal["whole"]

\* C4, amended: the chunked calls leave the same carried phases as the one
\* call, and their concatenated output matches the one call's at every sample
\* that lies at least half a control step from every chunk boundary; with
\* resampling factor 1 that is every sample.
C4_ChunkedSignalAwayFromCuts ==
  SineSplit =>
    /\ phases["chunked"] = phases["whole"]
    /\ Shape3(sine_signal["chunked"]) = Shape3(sine_signal["whole"])
    /\ \A b \in 1..Len(sine_signal["whole"]) :
         \A t \in 1..Len(sine_signal["whole"][b][1]) :
           (\A cut \in sine_cuts["chunked"] : AwayFromSplit(t, cut, sine_factor)) =>
             sine_signal["chunked"][b][1][t] = sine_signal["whole"][b][1][t]
    /\ sine_factor = 1 => sine_signal["chunked"] = sine_signal["whole"]

\* a trajectory cut in three, upsampled, rendered from carried phases that are
\* not all zero
C4_Witness ==
  /\ SineSplit
  /\ Cardinality(sine_cuts["chunked"]) = 2
  /\ sine_factor > 1
  /\ sine_start["chunked"] # <<>>
  /\ \E b \in 1..Len(sine_start["chunked"]) :
       \E c \in 1..NSines : sine_start["chunked"][b][c] # 0

\* the buffer generator g's last call worked with, as C8 has it: zeros when
\* there was none or its batch size was not the call's, else what was carried
Carried(g) ==
  LET before == sine_last[g].phases
  IN IF before = <<>> \/ Len(before) # Len(frequencies)
     THEN Tup([b \in 1..Len(frequencies) |-> Tup([c \in 1..NSines |-> 0])])
     ELSE before

\* the phases of the chunk of generator g's last call, by themselves
ChunkPhases(g) ==
  Mod2Pi(CumSum(Interpolate(Slice3(frequencies, sine_last[g].from, sine_pos[g]),
                            sine_factor)))

\* C8: in a streaming SineSynth the phases buffer has shape (batch size of the
\* most recent call, n_sines); a call works with zeros when there is no buffer
\* or its batch size is not the call's, and else with the buffer the previous
\* call left, which it adds to every sample of the chunk's phases; it leaves
\* the phase of the chunk's last time step, wrapped, in the buffer.
C8_PhasesCarried ==
  streaming =>
    \A g \in SineGens :
      /\ sine_batch[g] = 0 => phases[g] = <<>>
      /\ sine_batch[g] > 0 =>
           /\ Len(phases[g]) = sine_batch[g]
           /\ \A b \in 1..Len(phases[g]) : Len(phases[g][b]) = NSines
      /\ sine_last[g].from >= 0 =>
           LET chunk   == ChunkPhases(g)
               carried == Carried(g)
               n       == (sine_pos[g] - sine_last[g].from) * sine_factor
           IN /\ sine_phi[g] =
                   [b \in 1..Len(frequencies) |-> [c \in 1..NSines |->
                     [t \in 1..n |-> chunk[b][c][t] + carried[b][c]]]]
              /\ phases[g] =
                   [b \in 1..Len(frequencies) |-> [c \in 1..NSines |->
                     (chunk[b][c][n] + carried[b][c]) % TwoPi]]

\* a call that found a buffer of its batch size, not all zero, and kept it
C8_Witness ==
  /\ streaming
  /\ sine_last["chunked"].from > 0
  /\ \E b \in 1..Len(frequencies) :
       \E c \in 1..NSines : Carried("chunked")[b][c] # 0

\* a call that found a buffer of another batch size, not all zero
C8_WitnessRealloc ==
  /\ streaming
  /\ sine_last["whole"].from = 0
  /\ sine_last["whole"].phases # <<>>
  /\ Len(sine_last["whole"].phases) # Len(frequencies)
  /\ \E b \in 1..Len(sine_last["whole"].phases) :
       \E c \in 1..NSines : sine_last["whole"].phases[b][c] # 0

\* ------------------------------------------------------------- claims: register
Split_done == params # <<>>

FlatWidth == Len(params[1][1])

\* where synth i's sub-range starts when the offset runs
RunningOffset(i) == TotalParams(SubSeq(synths, 1, i - 1))

\* where slot j of synth i starts then
SlotOffset(i, j) == RunningOffset(i) + SumSeq(SubSeq(synths[i], 1, j - 1))

\* C5: split_params of a flat tensor as wide as the register's total_params
\* returns, for synth i and its slot j, the columns of the flat tensor that
\* start at the sum of the total_params of the synths registered before i plus
\* the widths of i's slots before j: the tensors that were concatenated.
C5_SplitRecoversSlots ==
  (Split_done /\ FlatWidth = TotalParams(synths)) =>
    /\ split_raised = None
    /\ Len(params_list) = Len(synths)
    /\ \A i \in 1..Len(synths) :
         /\ Len(params_list[i]) = Len(synths[i])
         /\ \A j \in 1..Len(synths[i]) :
              params_list[i][j] =
                Columns(params, SlotOffset(i, j), SlotOffset(i, j) + synths[i][j])

\* C6: split_params of a flat tensor whose width is not the register's
\* total_params fails with InvalidShapeError and returns no slices.
C6_WrongWidthRejected ==
  (Split_done /\ FlatWidth # TotalParams(synths)) =>
    /\ split_raised = "InvalidShapeError"
    /\ params_list = <<>>

\* ------------------------------------------------------------- claims: any call
\* the channel count the generator was constructed with
DeclaredChannels ==
  CASE kind = "NoiseBandSynth" -> NFilters
    [] kind = "SineSynth"      -> NSines
    [] kind = "HarmonicSynth"  -> NHarmonics

\* C7: a call whose amplitudes have another channel count than the declared
\* one fails with InvalidShapeError, returns no signal, and leaves the
\* generator's shift and phases as they were.
C7_WrongChannelsRejected ==
  (call_res.called /\ Len(call_args.amplitudes[1]) # DeclaredChannels) =>
    /\ call_res.raised = "InvalidShapeError"
    /\ call_res.signal = <<>>
    /\ call_shift = call_before.shift
    /\ call_phases = call_before.phases

\* C10: the frequencies a HarmonicSynth call hands to SineSynth.__call__ have
\* shape (batch, n_harmonics, control_len) and are the fundamental of the batch
\* element at the time step times h + 1 at harmonic index h, whether the
\* fundamental came as (batch, 1, control_len) or as (batch, control_len).
C10_HarmonicFrequencies ==
  (call_res.called /\ kind = "HarmonicSynth") =>
    LET f == call_args.fundamental
        B == Len(f.data)
        L == IF f.dims = 3 THEN Len(f.data[1][1]) ELSE Len(f.data[1])
    IN call_res.frequencies =
         [b \in 1..B |-> [h \in 1..NHarmonics |-> [t \in 1..L |->
           (IF f.dims = 3 THEN f.data[b][1][t] ELSE f.data[b][t]) * h]]]

\* ------------------------------------------------------------- claims: construction
\* a positive whole resampling factor and at least one filter / sine / harmonic
Supported(args) ==
  /\ args.resampling_factor > 0
  /\ args.resampling_factor % 2 = 0
  /\ args.n > 0

\* C12: a constructor called with a resampling factor that is not a positive
\* integer, or with no filter / sine / harmonic, fails with
\* UnsupportedConfigurationError and returns no generator.
C12_UnsupportedRejected ==
  (attempt # NoInstance /\ ~Supported(attempt)) =>
    /\ init_raised = "UnsupportedConfigurationError"
    /\ instance = NoInstance

\* ------------------------------------------------------------- claims: twins
\* both twins were called in this round
BothDone == \A i \in Twins : twin_done[i]

\* C11: with the generators in evaluation mode, two calls of generators of
\* one class from the same read offset and the same carried phases with the
\* same arguments return the same signal and leave the same read offset and
\* the same carried phases.
C11_SameStateSameRender ==
  (~twin_training /\ BothDone /\ twin_start["first"] = twin_start["second"]) =>
    /\ twin_out["first"] = twin_out["second"]
    /\ twin_shift["first"] = twin_shift["second"]
    /\ twin_phases["first"] = twin_phases["second"]

\* two evaluation calls of NoiseBandSynths from a read offset other than 0
C11_Witness ==
  /\ twin_kind = "NoiseBandSynth"
  /\ ~twin_training
  /\ BothDone
  /\ twin_start["first"] = twin_start["second"]
  /\ twin_start["first"].shift # 0
  /\ twin_out["first"] # <<>>

\* two streaming calls of SineSynths from carried phases other than 0
C11_WitnessSines ==
  /\ twin_kind = "SineSynth"
  /\ twin_streaming
  /\ BothDone
  /\ twin_start["first"] = twin_start["second"]
  /\ twin_start["first"].phases # <<>>
  /\ \E b \in 1..Len(twin_start["first"].phases) :
       twin_start["first"].phases[b][1] # 0

\* in training mode two such calls return different signals
C11_WitnessTraining ==
  /\ twin_training
  /\ BothDone
  /\ twin_start["first"] = twin_start["second"]
  /\ twin_out["first"] # twin_out["second"]

\* the frequencies of the round's call, as SineSynth.__call__ is given them
TwinFrequencies ==
  IF twin_kind = "HarmonicSynth"
  THEN HarmonicFrequencies(twin_args.fundamental, NHarmonics)
  ELSE twin_args.frequencies

\* C15: a SineSynth or HarmonicSynth built with streaming disabled has no
\* carried phases after any calls of any batch sizes, and what a call returns
\* is the mixture of the sines whose phases are the running sums, from zero,
\* of that call's own upsampled frequencies.
C15_NoStreamingNoPhases ==
  (twin_kind # "NoiseBandSynth" /\ ~twin_streaming) =>
    \A i \in Twins :
      /\ twin_phases[i] = <<>>
      /\ twin_done[i] =>
           twin_out[i] = SineMix(Interpolate(twin_args.amplitudes, twin_factor),
                                 Mod2Pi(CumSum(Interpolate(TwinFrequencies, twin_factor))))

\* a call of a generator without streaming that was called before, with
\* another batch size
C15_Witness ==
  /\ twin_kind = "HarmonicSynth"
  /\ ~twin_streaming
  /\ twin_rounds > 1
  /\ twin_done["first"]
  /\ twin_factor > 1
  /\ Len(twin_args.amplitudes) > 1

\* ------------------------------------------------------------- claims: a pair
RECURSIVE NoiseAlone(_, _)
\* what the first n of the calls leave and return when a NoiseBandSynth
\* receives them alone, from construction
NoiseAlone(amps_seq, n) ==
  IF n = 0 THEN [shift |-> 0, signal |-> <<>>]
  ELSE LET res == NoiseBandSynth_call(NoiseAlone(amps_seq, n - 1).shift, amps_seq[n],
                                      pair_factor, FALSE, 0)
       IN [shift |-> res.noisebands_shift, signal |-> res.signal]

RECURSIVE SineAlone(_, _)
\* the same for a SineSynth
SineAlone(ctl_seq, n) ==
  IF n = 0 THEN [phases |-> <<>>, signal |-> <<>>]
  ELSE LET res == SineSynth_call(SineAlone(ctl_seq, n - 1).phases, pair_streaming, NSines,
                                 ctl_seq[n], ctl_seq[n], pair_factor)
       IN [phases |-> res.phases, signal |-> res.signal]

============================================================================
